---- MODULE Spec2Model ----
(***************************************************************************)
(* A model of ObjectStores/s3_handler.py: the read-eval-print loop of      *)
(* main(), S3Handler.dispatch and the seven operation handlers, run        *)
(* against an object store (buckets, objects) and a local directory.       *)
(*                                                                         *)
(* A Python str is a sequence of one-character strings, so that split,     *)
(* join, the % formatting, path + '.bak' and the `in` substring test are   *)
(* computed and not assumed.                                               *)
(***************************************************************************)
EXTENDS Integers, Sequences, FiniteSets, TLC

VARIABLES pc, owned, shared, objs, files, command_string, response, raised,
          printed, calls

vars == <<pc, owned, shared, objs, files, command_string, response, raised,
          printed, calls>>

(***************************************************************************)
(* Bounds of the model.                                                    *)
(***************************************************************************)
\* File and object contents are 1..MaxContent; 0 stands for "no such file/object".
MaxContent == 2

\* Names used as bucket arguments.
BucketB == <<"b">>
BucketD == <<"d">>
BucketOrder == <<BucketB, BucketD>>
BucketTokens == {BucketOrder[i] : i \in 1..Len(BucketOrder)}

\* Names used as object keys, local file names and find patterns.  "e" occurs
\* in 'Directory does not exist.', "ez" and "z" do not.
KeyE == <<"e">>
KeyEZ == <<"e","z">>
PatZ == <<"z">>
KeyOrder == <<KeyE, KeyEZ>>
KeyTokens == {KeyOrder[i] : i \in 1..Len(KeyOrder)}
PatternTokens == {KeyE, PatZ}

\* Buckets of other accounts that the caller may be granted access to.
SharedCandidates == {BucketD}

\* Names of local files, and the buckets that uploads are sent to.
FileTokens == {KeyE}
UploadBuckets == {BucketB}

Bak == <<".","b","a","k">>
Paths == FileTokens \cup {f \o Bak : f \in FileTokens}

(***************************************************************************)
(* Python str and list operations.                                         *)
(***************************************************************************)
SP == " "
TAB == "\t"
IsSpace(c) == c \in {SP, TAB}

\* sub in s, for two str values
Contains(sub, s) ==
  \E i \in 0..(Len(s) - Len(sub)) : SubSeq(s, i + 1, i + Len(sub)) = sub

\* x in l, for a list l
Member(x, l) == \E i \in 1..Len(l) : l[i] = x

RECURSIVE SplitOn(_, _, _)
\* s.split(" "): cut at every single occurrence of the separator; `cur` is the
\* token being read.  Consecutive separators give empty tokens.
SplitOn(s, sep, cur) ==
  IF s = <<>> THEN <<cur>>
  ELSE IF Head(s) = sep THEN <<cur>> \o SplitOn(Tail(s), sep, <<>>)
  ELSE SplitOn(Tail(s), sep, Append(cur, Head(s)))

RECURSIVE SplitWhitespace(_, _)
\* s.split(): cut at runs of whitespace, no empty tokens.
SplitWhitespace(s, cur) ==
  IF s = <<>> THEN (IF cur = <<>> THEN <<>> ELSE <<cur>>)
  ELSE IF IsSpace(Head(s))
       THEN (IF cur = <<>> THEN <<>> ELSE <<cur>>) \o SplitWhitespace(Tail(s), <<>>)
  ELSE SplitWhitespace(Tail(s), Append(cur, Head(s)))

RECURSIVE Join(_, _)
\* sep.join(tokens)
Join(sep, tokens) ==
  IF tokens = <<>> THEN <<>>
  ELSE IF Len(tokens) = 1 THEN tokens[1]
  ELSE tokens[1] \o sep \o Join(sep, Tail(tokens))

\* main, line 256: " ".join(command_string.split())
Normalize(line) == Join(<<SP>>, SplitWhitespace(line, <<>>))

(***************************************************************************)
(* Values a handler returns or raises: a str, a list of str, an exception. *)
(***************************************************************************)
Str(t) == [kind |-> "str", text |-> t, items |-> <<>>]
Lst(l) == [kind |-> "list", text |-> <<>>, items |-> l]
Exc(t) == [kind |-> "exc", text |-> t, items |-> <<>>]
NoValue == Str(<<>>)

\* x in v, where v is a str (substring test) or a list (membership)
In(x, v) == IF v.kind = "list" THEN Member(x, v.items) ELSE Contains(x, v.text)
\* len(v)
LenOf(v) == IF v.kind = "list" THEN Len(v.items) ELSE Len(v.text)
\* the elements  for obj in v  runs over: list items, or the characters of a str
Iterate(v) == IF v.kind = "list" THEN v.items ELSE [i \in 1..Len(v.text) |-> <<v.text[i]>>]

error_message_dict ==
  [ operation_not_permitted    |-> <<"N","o","t"," ","a","u","t","h","o","r","i","z","e","d"," ","t","o"," ","a","c","c","e","s","s"," ","r","e","s","o","u","r","c","e",".">>,
    invalid_directory_name     |-> <<"D","i","r","e","c","t","o","r","y"," ","n","a","m","e"," ","i","s"," ","i","n","v","a","l","i","d",".">>,
    incorrect_parameter_number |-> <<"I","n","c","o","r","r","e","c","t"," ","n","u","m","b","e","r"," ","o","f"," ","p","a","r","a","m","e","t","e","r","s"," ","p","r","o","v","i","d","e","d">>,
    not_implemented            |-> <<"F","u","n","c","t","i","o","n","a","l","i","t","y"," ","n","o","t"," ","i","m","p","l","e","m","e","n","t","e","d"," ","y","e","t","!">>,
    bucket_name_exists         |-> <<"D","i","r","e","c","t","o","r","y"," ","a","l","r","e","a","d","y"," ","e","x","i","s","t","s",".">>,
    bucket_name_empty          |-> <<"D","i","r","e","c","t","o","r","y"," ","n","a","m","e"," ","c","a","n","n","o","t"," ","b","e"," ","e","m","p","t","y",".">>,
    non_empty_bucket           |-> <<"D","i","r","e","c","t","o","r","y"," ","i","s"," ","n","o","t"," ","e","m","p","t","y",".">>,
    missing_source_file        |-> <<"S","o","u","r","c","e"," ","f","i","l","e"," ","c","a","n","n","o","t"," ","b","e"," ","f","o","u","n","d",".">>,
    non_existent_bucket        |-> <<"D","i","r","e","c","t","o","r","y"," ","d","o","e","s"," ","n","o","t"," ","e","x","i","s","t",".">>,
    non_existent_object        |-> <<"D","e","s","t","i","n","a","t","i","o","n"," ","F","i","l","e"," ","d","o","e","s"," ","n","o","t"," ","e","x","i","s","t",".">>,
    unknown_error              |-> <<"S","o","m","e","t","h","i","n","g"," ","w","a","s"," ","n","o","t"," ","c","o","r","r","e","c","t"," ","w","i","t","h"," ","t","h","e"," ","r","e","q","u","e","s","t","."," ","T","r","y"," ","a","g","a","i","n",".">> ]

_error_messages(issue) ==
  IF issue # "" THEN error_message_dict[issue] ELSE error_message_dict["unknown_error"]

CommandNotRecognized == <<"C","o","m","m","a","n","d"," ","n","o","t"," ","r","e","c","o","g","n","i","z","e","d",".">>
GoodBye == <<"G","o","o","d"," ","b","y","e","!">>

\* The success strings, by % formatting.
CreatedMsg(bucket_name) == <<"D","i","r","e","c","t","o","r","y"," ">> \o bucket_name \o <<" ","c","r","e","a","t","e","d",".">>
UploadedMsg(source_file_name, bucket_name) ==
  <<"F","i","l","e"," ">> \o source_file_name \o <<" ","u","p","l","o","a","d","e","d"," ","t","o"," ","d","i","r","e","c","t","o","r","y"," ">> \o bucket_name \o <<".">>
DownloadedMsg(dest_object_name, bucket_name) ==
  <<"F","i","l","e"," ">> \o dest_object_name \o <<" ","d","o","w","n","l","o","a","d","e","d"," ","f","r","o","m"," ","d","i","r","e","c","t","o","r","y"," ">> \o bucket_name \o <<".">>
DeletedMsg(dest_object_name, bucket_name) ==
  <<"F","i","l","e"," ">> \o dest_object_name \o <<" ","d","e","l","e","t","e","d"," ","f","r","o","m"," ","d","i","r","e","c","t","o","r","y"," ">> \o bucket_name \o <<".">>
DirDeletedMsg(bucket_name) == <<"D","i","r","e","c","t","o","r","y"," ">> \o bucket_name \o <<" ","d","e","l","e","t","e","d",".">>

HelpText ==
  << <<"S","u","p","p","o","r","t","e","d"," ","C","o","m","m","a","n","d","s",":">>,
     <<"1","."," ","c","r","e","a","t","e","d","i","r"," ","<","b","u","c","k","e","t","_","n","a","m","e",">">>,
     <<"2","."," ","u","p","l","o","a","d"," ","<","s","o","u","r","c","e","_","f","i","l","e","_","n","a","m","e",">"," ","<","b","u","c","k","e","t","_","n","a","m","e",">"," ","[","<","d","e","s","t","_","o","b","j","e","c","t","_","n","a","m","e",">","]">>,
     <<"3","."," ","d","o","w","n","l","o","a","d"," ","<","d","e","s","t","_","o","b","j","e","c","t","_","n","a","m","e",">"," ","<","b","u","c","k","e","t","_","n","a","m","e",">"," ","[","<","s","o","u","r","c","e","_","f","i","l","e","_","n","a","m","e",">","]">>,
     <<"4","."," ","d","e","l","e","t","e"," ","<","d","e","s","t","_","o","b","j","e","c","t","_","n","a","m","e",">"," ","<","b","u","c","k","e","t","_","n","a","m","e",">">>,
     <<"5","."," ","d","e","l","e","t","e","d","i","r"," ","<","b","u","c","k","e","t","_","n","a","m","e",">">>,
     <<"6","."," ","f","i","n","d"," ","<","p","a","t","t","e","r","n",">"," ","<","b","u","c","k","e","t","_","n","a","m","e",">"," ","-","-"," ","e",".","g",".",":"," ","f","i","n","d"," ","t","x","t"," ","b","u","c","k","e","t","1"," ","-","-">>,
     <<"7","."," ","l","i","s","t","d","i","r"," ","[","<","b","u","c","k","e","t","_","n","a","m","e",">","]">> >>

\* Exceptions that reach main's handler.
TypeError == <<"T","y","p","e","E","r","r","o","r">>
ClientError == <<"C","l","i","e","n","t","E","r","r","o","r">>

(***************************************************************************)
(* The object store and the local directory, as the handlers see them.     *)
(* A world w is [owned, shared, objs, files]; env names the one backend    *)
(* call of the command that fails, if any.                                 *)
(***************************************************************************)
Call(op, bucket, key) == [op |-> op, bucket |-> bucket, key |-> key]

\* env is "none", one of HeadFaults (head_bucket raises with that code), or
\* the name of the client call that raises.
HeadFaults == {"head_400", "head_403", "head_500"}

Accessible(w, bucket_name) == bucket_name \in w.owned \cup w.shared

\* client.head_bucket: what the store answers.  ok: a response with that HTTP
\* status; otherwise an exception carrying Error.Code.
HeadBucket(w, bucket_name, env) ==
  IF env = "head_500" THEN [ok |-> FALSE, status |-> 500, code |-> "500"]
  ELSE IF Accessible(w, bucket_name) THEN [ok |-> TRUE, status |-> 200, code |-> ""]
  ELSE IF env = "head_400" THEN [ok |-> FALSE, status |-> 400, code |-> "400"]
  ELSE IF env = "head_403" THEN [ok |-> FALSE, status |-> 403, code |-> "403"]
  ELSE [ok |-> FALSE, status |-> 404, code |-> "404"]

\* client.list_buckets: the caller's own buckets, in the store's order.
ListBuckets(w) == SelectSeq(BucketOrder, LAMBDA b : b \in w.owned)

\* client.list_objects: the keys of the bucket, in the store's order.
ListObjects(w, bucket_name) == SelectSeq(KeyOrder, LAMBDA k : w.objs[bucket_name][k] # 0)

HasObject(w, bucket_name, key) ==
  /\ bucket_name \in DOMAIN w.objs
  /\ key \in DOMAIN w.objs[bucket_name]
  /\ w.objs[bucket_name][key] # 0

\* os.path.exists
Exists(w, path) == path \in DOMAIN w.files /\ w.files[path] # 0

\* a plausible slip: an existing backup is kept (the move is skipped when dst exists)
Rename_keep_backup(fs, src, dst) ==
  IF fs[dst] # 0 THEN [fs EXCEPT ![src] = 0] ELSE [fs EXCEPT ![dst] = fs[src], ![src] = 0]

\* os.rename(src, dst): dst is replaced if it exists
Rename(fs, src, dst) == [fs EXCEPT ![dst] = fs[src], ![src] = 0]

(***************************************************************************)
(* Results of a handler: what it returned or raised, the backend calls it  *)
(* issued, and the world it leaves.                                        *)
(***************************************************************************)
Return(w, value, cs) ==
  [raised |-> FALSE, response |-> value, calls |-> cs,
   owned |-> w.owned, objs |-> w.objs, files |-> w.files]

Raise(w, exception, cs) ==
  [raised |-> TRUE, response |-> Exc(exception), calls |-> cs,
   owned |-> w.owned, objs |-> w.objs, files |-> w.files]

\* S3Handler._get: "True", "False" or "raise"
_get(w, bucket_name, env) ==
  LET r == HeadBucket(w, bucket_name, env) IN
  IF ~r.ok
  THEN IF r.code \in {"400", "403", "404"} THEN "False"
       ELSE IF r.code = "200" THEN "True"
       ELSE "raise"
  ELSE IF r.status = 200 THEN "True" ELSE "False"

\* a plausible slip: listdir probes the bucket itself before listing it
listdir_probing(w, bucket_name, env) ==
  LET c1 == <<Call("list_buckets", <<>>, <<>>)>>
      buckets == ListBuckets(w)
      c2 == c1 \o <<Call("head_bucket", bucket_name, <<>>), Call("list_objects", bucket_name, <<>>)>>
  IN
  IF env = "list_buckets" THEN Raise(w, ClientError, c1)
  ELSE IF bucket_name # <<>>
  THEN IF ~Member(bucket_name, buckets)
       THEN Return(w, Str(_error_messages("non_existent_bucket")), c1)
       ELSE IF env = "list_objects" THEN Raise(w, ClientError, c2)
       ELSE Return(w, Lst(ListObjects(w, bucket_name)), c2)
  ELSE Return(w, Lst(buckets), c1)

\* S3Handler.listdir; bucket_name = <<>> stands for None and for ''
listdir(w, bucket_name, env) ==
  LET c1 == <<Call("list_buckets", <<>>, <<>>)>>
      buckets == ListBuckets(w)
      c2 == Append(c1, Call("list_objects", bucket_name, <<>>))
  IN
  IF env = "list_buckets" THEN Raise(w, ClientError, c1)
  ELSE IF bucket_name # <<>>
  THEN IF ~Member(bucket_name, buckets)
       THEN Return(w, Str(_error_messages("non_existent_bucket")), c1)
       ELSE IF env = "list_objects" THEN Raise(w, ClientError, c2)
       ELSE Return(w, Lst(ListObjects(w, bucket_name)), c2)
  ELSE Return(w, Lst(buckets), c1)

\* a plausible slip: createdir does not look whether the bucket exists
createdir_unchecked(w, bucket_name, env) ==
  LET c1 == <<Call("head_bucket", bucket_name, <<>>)>>
      c2 == Append(c1, Call("create_bucket", bucket_name, <<>>))
      g == _get(w, bucket_name, env)
  IN
  IF bucket_name = <<>> THEN Return(w, Str(_error_messages("bucket_name_empty")), <<>>)
  ELSE IF g = "raise" THEN Raise(w, ClientError, c1)
  ELSE IF env = "create_bucket" THEN Raise(w, ClientError, c2)
  ELSE Return([w EXCEPT !.owned = @ \cup {bucket_name}], Str(CreatedMsg(bucket_name)), c2)

\* S3Handler.createdir
createdir(w, bucket_name, env) ==
  LET c1 == <<Call("head_bucket", bucket_name, <<>>)>>
      c2 == Append(c1, Call("create_bucket", bucket_name, <<>>))
      g == _get(w, bucket_name, env)
  IN
  IF bucket_name = <<>> THEN Return(w, Str(_error_messages("bucket_name_empty")), <<>>)
  ELSE IF g = "raise" THEN Raise(w, ClientError, c1)
  ELSE IF g = "True" THEN Return(w, Str(_error_messages("bucket_name_exists")), c1)
  ELSE IF env = "create_bucket" THEN Raise(w, ClientError, c2)
  ELSE Return([w EXCEPT !.owned = @ \cup {bucket_name}], Str(CreatedMsg(bucket_name)), c2)

\* S3Handler.upload; dest_object_name = <<>> stands for None and for ''
upload(w, source_file_name, bucket_name, dest_object_name, env) ==
  LET c1 == <<Call("head_bucket", bucket_name, <<>>)>>
      g == _get(w, bucket_name, env)
      dest == IF dest_object_name = <<>> THEN source_file_name ELSE dest_object_name
      c2 == Append(c1, Call("upload_file", bucket_name, dest))
  IN
  IF ~Exists(w, source_file_name)
  THEN Return(w, Str(_error_messages("missing_source_file")), <<>>)
  ELSE IF g = "raise" THEN Raise(w, ClientError, c1)
  ELSE IF g = "False" THEN Return(w, Str(_error_messages("non_existent_bucket")), c1)
  ELSE IF env = "upload_file" THEN Raise(w, ClientError, c2)
  ELSE Return([w EXCEPT !.objs[bucket_name][dest] = w.files[source_file_name]],
              Str(UploadedMsg(source_file_name, bucket_name)), c2)

\* S3Handler.download; source_file_name = <<>> stands for None and for ''
download(w, dest_object_name, bucket_name, source_file_name, env) ==
  LET c1 == <<Call("head_bucket", bucket_name, <<>>)>>
      g == _get(w, bucket_name, env)
      l == listdir(w, bucket_name, env)
      c2 == c1 \o l.calls
      local == IF source_file_name = <<>> THEN dest_object_name ELSE source_file_name
      moved == IF Exists(w, local)
               THEN [w EXCEPT !.files = Rename(@, local, local \o Bak)]
               ELSE w
      c3 == Append(c2, Call("download_file", bucket_name, dest_object_name))
  IN
  IF g = "raise" THEN Raise(w, ClientError, c1)
  ELSE IF g = "False" THEN Return(w, Str(_error_messages("non_existent_bucket")), c1)
  ELSE IF l.raised THEN Raise(w, ClientError, c2)
  ELSE IF ~In(dest_object_name, l.response)
  THEN Return(w, Str(_error_messages("non_existent_object")), c2)
  ELSE IF env = "download_file" \/ ~HasObject(w, bucket_name, dest_object_name)
  THEN Raise(moved, ClientError, c3)
  ELSE Return([moved EXCEPT !.files[local] = w.objs[bucket_name][dest_object_name]],
              Str(DownloadedMsg(dest_object_name, bucket_name)), c3)

\* S3Handler.delete
delete(w, dest_object_name, bucket_name, env) ==
  LET c1 == <<Call("head_bucket", bucket_name, <<>>)>>
      g == _get(w, bucket_name, env)
      l == listdir(w, bucket_name, env)
      c2 == c1 \o l.calls
      c3 == Append(c2, Call("delete_object", bucket_name, dest_object_name))
  IN
  IF g = "raise" THEN Raise(w, ClientError, c1)
  ELSE IF g = "False" THEN Return(w, Str(_error_messages("non_existent_bucket")), c1)
  ELSE IF l.raised THEN Raise(w, ClientError, c2)
  ELSE IF ~In(dest_object_name, l.response)
  THEN Return(w, Str(_error_messages("non_existent_object")), c2)
  ELSE IF env = "delete_object" THEN Raise(w, ClientError, c3)
  ELSE Return(IF HasObject(w, bucket_name, dest_object_name)
              THEN [w EXCEPT !.objs[bucket_name][dest_object_name] = 0]
              ELSE w,
              Str(DeletedMsg(dest_object_name, bucket_name)), c3)

\* S3Handler.deletedir
deletedir(w, bucket_name, env) ==
  LET c1 == <<Call("head_bucket", bucket_name, <<>>)>>
      g == _get(w, bucket_name, env)
      l == listdir(w, bucket_name, env)
      c2 == c1 \o l.calls
      c3 == Append(c2, Call("delete_bucket", bucket_name, <<>>))
  IN
  IF g = "raise" THEN Raise(w, ClientError, c1)
  ELSE IF g = "False" THEN Return(w, Str(_error_messages("non_existent_bucket")), c1)
  ELSE IF l.raised THEN Raise(w, ClientError, c2)
  ELSE IF LenOf(l.response) > 0
  THEN Return(w, Str(_error_messages("non_empty_bucket")), c2)
  ELSE IF env = "delete_bucket" THEN Raise(w, ClientError, c3)
  ELSE Return([w EXCEPT !.owned = @ \ {bucket_name}], Str(DirDeletedMsg(bucket_name)), c3)

\* S3Handler.find
find(w, pattern, bucket_name, env) ==
  LET c1 == <<Call("head_bucket", bucket_name, <<>>)>>
      g == _get(w, bucket_name, env)
      l == listdir(w, bucket_name, env)
      c2 == c1 \o l.calls
  IN
  IF g = "raise" THEN Raise(w, ClientError, c1)
  ELSE IF g = "False" THEN Return(w, Str(_error_messages("non_existent_bucket")), c1)
  ELSE IF l.raised THEN Raise(w, ClientError, c2)
  ELSE Return(w, Lst(SelectSeq(Iterate(l.response), LAMBDA obj : Contains(pattern, obj))), c2)

Incorrect(w) == Return(w, Str(_error_messages("incorrect_parameter_number")), <<>>)

\* handler(*parts[1:]) with more positional arguments than the handler takes
TooManyArguments(w) == Raise(w, TypeError, <<>>)

\* an optional trailing argument: unset (None) when the token is missing
Optional(parts, i) == IF Len(parts) >= i THEN parts[i] ELSE <<>>

\* S3Handler.dispatch, the branches of the if/elif chain
dispatch_createdir(w, parts, env) ==
  IF Len(parts) > 1 THEN createdir(w, parts[2], env)
  ELSE Return(w, Str(_error_messages("bucket_name_empty")), <<>>)

dispatch_upload(w, parts, env) ==
  IF Len(parts) < 3 THEN Incorrect(w)
  ELSE IF Len(parts) > 4 THEN TooManyArguments(w)
  ELSE upload(w, parts[2], parts[3], Optional(parts, 4), env)

dispatch_download(w, parts, env) ==
  IF Len(parts) < 3 THEN Incorrect(w)
  ELSE IF Len(parts) > 4 THEN TooManyArguments(w)
  ELSE download(w, parts[2], parts[3], Optional(parts, 4), env)

dispatch_delete(w, parts, env) ==
  IF Len(parts) < 3 THEN Incorrect(w)
  ELSE IF Len(parts) > 3 THEN TooManyArguments(w)
  ELSE delete(w, parts[2], parts[3], env)

\* a plausible slip: the argument count of deletedir is not checked, a missing
\* name is passed on as the empty string
dispatch_deletedir_unchecked(w, parts, env) ==
  IF Len(parts) > 2 THEN TooManyArguments(w)
  ELSE deletedir(w, Optional(parts, 2), env)

dispatch_deletedir(w, parts, env) ==
  IF Len(parts) < 2 THEN Incorrect(w)
  ELSE IF Len(parts) > 2 THEN TooManyArguments(w)
  ELSE deletedir(w, parts[2], env)

dispatch_find(w, parts, env) ==
  IF Len(parts) < 3 THEN Incorrect(w)
  ELSE IF Len(parts) > 3 THEN TooManyArguments(w)
  ELSE find(w, parts[2], parts[3], env)

dispatch_listdir(w, parts, env) ==
  IF Len(parts) > 2 THEN TooManyArguments(w)
  ELSE listdir(w, Optional(parts, 2), env)

\* command_string.split(" ")
Split(cmd) == SplitOn(cmd, SP, <<>>)

\* S3Handler.dispatch
dispatch(w, cmd, env) ==
  LET parts == Split(cmd) IN
  IF parts[1] = <<"c","r","e","a","t","e","d","i","r">> THEN dispatch_createdir(w, parts, env)
  ELSE IF parts[1] = <<"u","p","l","o","a","d">> THEN dispatch_upload(w, parts, env)
  ELSE IF parts[1] = <<"d","o","w","n","l","o","a","d">> THEN dispatch_download(w, parts, env)
  ELSE IF parts[1] = <<"d","e","l","e","t","e">> THEN dispatch_delete(w, parts, env)
  ELSE IF parts[1] = <<"d","e","l","e","t","e","d","i","r">> THEN dispatch_deletedir(w, parts, env)
  ELSE IF parts[1] = <<"f","i","n","d">> THEN dispatch_find(w, parts, env)
  ELSE IF parts[1] = <<"l","i","s","t","d","i","r">> THEN dispatch_listdir(w, parts, env)
  ELSE Return(w, Str(CommandNotRecognized), <<>>)

(***************************************************************************)
(* The lines the user types.                                               *)
(***************************************************************************)
V_createdir == <<"c","r","e","a","t","e","d","i","r">>
V_upload == <<"u","p","l","o","a","d">>
V_download == <<"d","o","w","n","l","o","a","d">>
V_delete == <<"d","e","l","e","t","e">>
V_deletedir == <<"d","e","l","e","t","e","d","i","r">>
V_find == <<"f","i","n","d">>
V_listdir == <<"l","i","s","t","d","i","r">>
V_exit == <<"e","x","i","t">>
V_help == <<"h","e","l","p">>

\* A token that is one argument too many.
Extra == <<"x">>

CreatedirCmds ==
  {<<V_createdir>>} \cup {<<V_createdir, b>> : b \in BucketTokens}
    \cup {<<V_createdir, BucketB, Extra>>}
DeletedirCmds ==
  {<<V_deletedir>>} \cup {<<V_deletedir, b>> : b \in BucketTokens}
    \cup {<<V_deletedir, BucketB, Extra>>}
ListdirCmds ==
  {<<V_listdir>>} \cup {<<V_listdir, b>> : b \in BucketTokens}
    \cup {<<V_listdir, BucketB, Extra>>}
UploadCmds ==
  {<<V_upload>>} \cup {<<V_upload, f>> : f \in KeyTokens}
    \cup {<<V_upload, f, b>> : f \in KeyTokens, b \in UploadBuckets}
    \cup {<<V_upload, f, b, k>> : f \in FileTokens, b \in UploadBuckets, k \in KeyTokens}
    \cup {<<V_upload, KeyE, BucketB, KeyE, Extra>>}
DownloadCmds ==
  {<<V_download>>} \cup {<<V_download, k>> : k \in KeyTokens}
    \cup {<<V_download, k, b>> : k \in FileTokens, b \in BucketTokens}
    \cup {<<V_download, k, b, f>> : k \in KeyTokens, b \in BucketTokens, f \in FileTokens}
    \cup {<<V_download, KeyE, BucketB, KeyE, Extra>>}
DeleteCmds ==
  {<<V_delete>>} \cup {<<V_delete, k>> : k \in KeyTokens}
    \cup {<<V_delete, k, b>> : k \in KeyTokens, b \in BucketTokens}
    \cup {<<V_delete, KeyE, BucketB, Extra>>}
FindCmds ==
  {<<V_find>>} \cup {<<V_find, p>> : p \in PatternTokens}
    \cup {<<V_find, p, b>> : p \in PatternTokens, b \in BucketTokens}
    \cup {<<V_find, KeyE, BucketB, Extra>>}
OtherCmds == {<<>>, <<<<"l","s">>>>, <<V_exit, <<"n","o","w">>>>, <<<<"H","e","l","p">>>>}

\* How a command is typed: single spaces, or with leading, repeated and
\* trailing whitespace (the short commands are also typed that way).
Render(tokens, layout) ==
  IF layout = "plain" THEN Join(<<SP>>, tokens)
  ELSE <<SP>> \o Join(<<SP, TAB>>, tokens) \o <<TAB, SP>>
Lines(cmds) ==
  {Render(c, "plain") : c \in cmds} \cup {Render(c, "padded") : c \in {x \in cmds : Len(x) <= 2}}
CreatedirLines == Lines(CreatedirCmds)
DeletedirLines == Lines(DeletedirCmds)
ListdirLines == Lines(ListdirCmds)
UploadLines == Lines(UploadCmds)
DownloadLines == Lines(DownloadCmds)
DeleteLines == Lines(DeleteCmds)
FindLines == Lines(FindCmds)
OtherLines == Lines(OtherCmds)
ExitLines == Lines({<<V_exit>>})
HelpLines == Lines({<<V_help>>})

(***************************************************************************)
(* main: the read-eval-print loop.                                         *)
(***************************************************************************)
World == [owned |-> owned, shared |-> shared, objs |-> objs, files |-> files]

EmptyBucket == [k \in KeyTokens |-> 0]

Init ==
  /\ pc = "prompt"
  /\ owned \in SUBSET BucketTokens
  /\ shared \in SUBSET (SharedCandidates \ owned)
  /\ objs \in [BucketTokens -> [KeyTokens -> 0..MaxContent]]
  /\ \A b \in BucketTokens \ (owned \cap UploadBuckets) : objs[b] = EmptyBucket
  /\ files \in [Paths -> 0..MaxContent]
  /\ command_string = <<>>
  /\ response = NoValue
  /\ raised = FALSE
  /\ printed = NoValue
  /\ calls = <<>>

\* a plausible slip: no except clause, so an exception ends the program
Evaluate_uncaught(r) ==
  /\ pc' = IF r.raised THEN "exited" ELSE "printed"
  /\ response' = r.response
  /\ raised' = r.raised
  /\ printed' = IF r.raised THEN NoValue ELSE r.response
  /\ calls' = r.calls
  /\ owned' = r.owned
  /\ objs' = r.objs
  /\ files' = r.files
  /\ UNCHANGED shared

\* The try block after dispatch, and the except block: print the response,
\* or the exception that was raised; r is what dispatch did.
Evaluate(r) ==
  /\ pc' = "printed"
  /\ response' = r.response
  /\ raised' = r.raised
  /\ printed' = r.response
  /\ calls' = r.calls
  /\ owned' = r.owned
  /\ objs' = r.objs
  /\ files' = r.files
  /\ UNCHANGED shared

\* One pass of the loop body for a line that is neither exit nor help:
\* input, normalisation, dispatch, and print of the response or of the
\* exception caught by `except Exception`.
Iteration(line, env) ==
  /\ \E cmd \in {Normalize(line)} :
       /\ cmd # V_exit
       /\ cmd # V_help
       /\ command_string' = cmd
  /\ Evaluate(dispatch(World, command_string', env))

Createdir ==
  /\ pc = "prompt"
  /\ \E line \in CreatedirLines, env \in {"none", "create_bucket"} \cup HeadFaults :
       Iteration(line, env)

Listdir ==
  /\ pc = "prompt"
  /\ \E line \in ListdirLines, env \in {"none", "list_buckets", "list_objects"} :
       Iteration(line, env)

Upload ==
  /\ pc = "prompt"
  /\ \E line \in UploadLines, env \in {"none", "upload_file"} \cup HeadFaults :
       Iteration(line, env)

Download ==
  /\ pc = "prompt"
  /\ \E line \in DownloadLines,
        env \in {"none", "list_buckets", "list_objects", "download_file"} \cup HeadFaults :
       Iteration(line, env)

Delete ==
  /\ pc = "prompt"
  /\ \E line \in DeleteLines,
        env \in {"none", "list_buckets", "list_objects", "delete_object"} \cup HeadFaults :
       Iteration(line, env)

Deletedir ==
  /\ pc = "prompt"
  /\ \E line \in DeletedirLines,
        env \in {"none", "list_buckets", "list_objects", "delete_bucket"} \cup HeadFaults :
       Iteration(line, env)

Find ==
  /\ pc = "prompt"
  /\ \E line \in FindLines,
        env \in {"none", "list_buckets", "list_objects"} \cup HeadFaults :
       Iteration(line, env)

Unrecognized ==
  /\ pc = "prompt"
  /\ \E line \in OtherLines : Iteration(line, "none")

\* command_string == 'exit': print the farewell and leave the loop
Exit ==
  \E line \in ExitLines :
    /\ pc = "prompt"
    /\ Normalize(line) = V_exit
    /\ pc' = "exited"
    /\ command_string' = V_exit
    /\ printed' = Str(GoodBye)
    /\ UNCHANGED <<owned, shared, objs, files, response, raised, calls>>

\* command_string == 'help': print the command list
Help ==
  \E line \in HelpLines :
    /\ pc = "prompt"
    /\ Normalize(line) = V_help
    /\ pc' = "printed"
    /\ command_string' = V_help
    /\ printed' = Lst(HelpText)
    /\ UNCHANGED <<owned, shared, objs, files, response, raised, calls>>

\* while True: back to the prompt; command_string = '' (line 249)
NextIteration ==
  /\ pc = "printed"
  /\ pc' = "prompt"
  /\ command_string' = <<>>
  /\ response' = NoValue
  /\ raised' = FALSE
  /\ printed' = NoValue
  /\ calls' = <<>>
  /\ UNCHANGED <<owned, shared, objs, files>>

Next ==
  \/ Createdir
  \/ Listdir
  \/ Upload
  \/ Download
  \/ Delete
  \/ Deletedir
  \/ Find
  \/ Unrecognized
  \/ Exit
  \/ Help
  \/ NextIteration

Spec == Init /\ [][Next]_vars

(***************************************************************************)
(* Vocabulary of the properties.                                           *)
(***************************************************************************)
\* The tokens of the command being answered.
Parts == Split(command_string)

\* A command (neither exit nor help) is read, dispatched and answered.
Step == pc = "prompt" /\ pc' = "printed" /\ command_string' # V_help

WorldUnchanged == owned' = owned /\ shared' = shared /\ objs' = objs /\ files' = files

Ops(cs) == [i \in 1..Len(cs) |-> cs[i].op]
Issued(cs, op) == \E i \in 1..Len(cs) : cs[i].op = op
NoRepeat(cs) == \A i, j \in 1..Len(cs) : cs[i] = cs[j] => i = j
IsPrefix(s, t) == Len(s) <= Len(t) /\ SubSeq(t, 1, Len(s)) = s

\* The backend answers the existence probe for the bucket with success.
ProbeTrue(w, bucket_name) == _get(w, bucket_name, "none") = "True"

\* The keys of the bucket that contain the pattern, in listing order.
Matching(w, pattern, bucket_name) ==
  SelectSeq(ListObjects(w, bucket_name), LAMBDA k : Contains(pattern, k))

\* The minimum number of arguments of a verb, as the routing table states it.
MinArguments(verb) ==
  CASE verb = V_createdir -> 1
    [] verb = V_deletedir -> 1
    [] verb = V_upload -> 2
    [] verb = V_download -> 2
    [] verb = V_delete -> 2
    [] verb = V_find -> 2
    [] OTHER -> 0

TooFew == pc = "printed" /\ Len(Parts) - 1 < MinArguments(Parts[1])

\* The success string of the command with these tokens, if it has one.
IsSuccess(parts, value) ==
  /\ value.kind = "str"
  /\ \/ Len(parts) >= 2 /\ parts[1] = V_createdir /\ value.text = CreatedMsg(parts[2])
     \/ Len(parts) >= 2 /\ parts[1] = V_deletedir /\ value.text = DirDeletedMsg(parts[2])
     \/ Len(parts) >= 3 /\ parts[1] = V_upload /\ value.text = UploadedMsg(parts[2], parts[3])
     \/ Len(parts) >= 3 /\ parts[1] = V_download /\ value.text = DownloadedMsg(parts[2], parts[3])
     \/ Len(parts) >= 3 /\ parts[1] = V_delete /\ value.text = DeletedMsg(parts[2], parts[3])

(***************************************************************************)
(* C1.  A command with fewer argument tokens than its verb requires.       *)
(***************************************************************************)
\* C1, as claimed: for createdir, deletedir (1 argument) and upload, download,
\* delete, find (2 arguments), a command line with fewer argument tokens is
\* answered 'Incorrect number of parameters provided' and no backend call is
\* issued.
C1_TooFewIsIncorrectNumber ==
  TooFew =>
    /\ printed = Str(_error_messages("incorrect_parameter_number"))
    /\ calls = <<>>

\* C1, amended: deletedir, upload, download, delete and find with too few
\* argument tokens are answered 'Incorrect number of parameters provided';
\* createdir without an argument is answered 'Directory name cannot be empty.';
\* in all these cases no backend call is issued and nothing is raised.
C1_TooFewArguments ==
  TooFew =>
    /\ ~raised
    /\ calls = <<>>
    /\ printed = IF Parts[1] = V_createdir
                 THEN Str(_error_messages("bucket_name_empty"))
                 ELSE Str(_error_messages("incorrect_parameter_number"))

C1_Witness ==
  /\ pc = "printed"
  /\ Parts = <<V_download, KeyE>>
  /\ printed = Str(_error_messages("incorrect_parameter_number"))
  /\ calls = <<>>

(***************************************************************************)
(* C2.  deletedir deletes a bucket only when it is empty.                  *)
(***************************************************************************)
\* C2: deletedir X on an existing bucket with at least one object is answered
\* 'Directory is not empty.', issues no delete-bucket call and leaves X and its
\* objects in place; on an existing bucket with no object it deletes X, answers
\* 'Directory X deleted.' and the existence probe for X then fails.  A bucket
\* is deleted only when its object listing is empty.
C2_Deletedir ==
  [][ (Step /\ Len(Parts') = 2 /\ Parts'[1] = V_deletedir /\ ~raised'
         /\ ProbeTrue(World, Parts'[2])) =>
        LET X == Parts'[2] IN
        /\ Issued(calls', "delete_bucket") => ListObjects(World, X) = <<>>
        /\ IF ListObjects(World, X) # <<>>
           THEN /\ printed' = Str(_error_messages("non_empty_bucket"))
                /\ ~Issued(calls', "delete_bucket")
                /\ ProbeTrue(World', X)
                /\ objs' = objs
           ELSE /\ printed' = Str(DirDeletedMsg(X))
                /\ ~ProbeTrue(World', X) ]_vars

(***************************************************************************)
(* C3.  createdir creates a bucket once.                                   *)
(***************************************************************************)
\* C3: createdir X, for a non-empty name X that does not exist, creates the
\* bucket and answers 'Directory X created.', and the existence probe for X
\* then succeeds; a bucket that exists stays in existence until a deletedir X
\* succeeds; createdir X on an existing bucket answers 'Directory already
\* exists.', issues no create-bucket call and changes nothing.
C3_Createdir ==
  [][ /\ (Step /\ Len(Parts') >= 2 /\ Parts'[1] = V_createdir /\ ~raised') =>
           LET X == Parts'[2] IN
           IF ProbeTrue(World, X)
           THEN /\ printed' = Str(_error_messages("bucket_name_exists"))
                /\ ~Issued(calls', "create_bucket")
                /\ WorldUnchanged
           ELSE /\ printed' = Str(CreatedMsg(X))
                /\ Issued(calls', "create_bucket")
                /\ ProbeTrue(World', X)
      /\ \A X \in BucketTokens :
           (ProbeTrue(World, X) /\ ~ProbeTrue(World', X)) =>
             /\ Parts' = <<V_deletedir, X>>
             /\ printed' = Str(DirDeletedMsg(X)) ]_vars

C3_Witness ==
  /\ pc = "printed"
  /\ Parts = <<V_createdir, BucketB>>
  /\ printed = Str(CreatedMsg(BucketB))
  /\ Ops(calls) = <<"head_bucket", "create_bucket">>
  /\ BucketB \in owned

(***************************************************************************)
(* C4.  download keeps one backup of the local file it replaces.           *)
(***************************************************************************)
\* C4: after every successful download of object K of bucket B to the local
\* path P (P is K when no path is given), P holds the content of the object;
\* if a file existed at P, P.bak holds exactly the content P had before the
\* download, whatever P.bak held before (one generation of backup).
C4_DownloadBackup ==
  [][ (Step /\ Len(Parts') \in {3, 4} /\ Parts'[1] = V_download /\ ~raised'
         /\ printed' = Str(DownloadedMsg(Parts'[2], Parts'[3]))) =>
        LET K == Parts'[2]
            B == Parts'[3]
            P == IF Len(Parts') = 4 THEN Parts'[4] ELSE K
        IN
        /\ files'[P] = objs[B][K]
        /\ files'[P] # 0
        /\ Exists(World, P) => files'[P \o Bak] = files[P] ]_vars

C4_Witness ==
  /\ pc = "printed"
  /\ Parts = <<V_download, KeyEZ, BucketB, KeyE>>
  /\ printed = Str(DownloadedMsg(KeyEZ, BucketB))
  /\ files[KeyE \o Bak] # 0
  /\ files[KeyE] # files[KeyE \o Bak]
  /\ files[KeyE] = objs[BucketB][KeyEZ]

(***************************************************************************)
(* C5.  find returns the keys that contain the pattern.                    *)
(***************************************************************************)
\* C5: find P B on an existing bucket B returns exactly the keys of B that
\* contain P as a substring, in the order of the backend's object listing.
C5_Find ==
  [][ (Step /\ Len(Parts') = 3 /\ Parts'[1] = V_find /\ ~raised'
         /\ ProbeTrue(World, Parts'[3])) =>
        response' = Lst(Matching(World, Parts'[2], Parts'[3])) ]_vars

(***************************************************************************)
(* C6.  delete and download check the bucket, then the key.                *)
(***************************************************************************)
\* C6: delete K B and download K B answer 'Directory does not exist.' when B
\* does not exist, otherwise 'Destination File does not exist.' when K is not a
\* key of B's object listing; in both cases no delete-object or get-object
\* call is issued and no local file is renamed.  Such a call is issued only
\* when B exists and K is a key of B's listing.
C6_DeleteDownloadPreconditions ==
  [][ (Step /\ Len(Parts') \in {3, 4} /\ Parts'[1] \in {V_delete, V_download}) =>
        LET K == Parts'[2]
            B == Parts'[3]
            exists == ProbeTrue(World, B)
            listed == exists /\ Member(K, ListObjects(World, B))
            issued == Issued(calls', "delete_object") \/ Issued(calls', "download_file")
        IN
        /\ issued => listed
        /\ (~raised' /\ ~exists) =>
             /\ printed' = Str(_error_messages("non_existent_bucket"))
             /\ ~issued
             /\ files' = files
        /\ (~raised' /\ exists /\ ~listed) =>
             /\ printed' = Str(_error_messages("non_existent_object"))
             /\ ~issued
             /\ files' = files ]_vars

(***************************************************************************)
(* C7.  The loop survives every fault and ends only on exit.               *)
(***************************************************************************)
\* C7: a fault raised while a command is processed is caught and printed, and
\* no backend call of the command is issued twice; after the answer is printed
\* the loop returns to the prompt, with the store and the files as they are and
\* no further backend call; the loop is left only from the prompt, by the
\* command exit, and after it nothing happens.
C7_LoopSurvivesFaults ==
  /\ [](pc = "printed" => ENABLED NextIteration)
  /\ [][ /\ (Step /\ raised') =>
              /\ response'.kind = "exc"
              /\ printed' = response'
              /\ NoRepeat(calls')
         /\ pc = "printed" => (pc' = "prompt" /\ calls' = <<>> /\ WorldUnchanged)
         /\ pc' = "exited" => (pc = "prompt" /\ command_string' = V_exit) ]_vars

C7_Witness ==
  /\ pc = "printed"
  /\ raised
  /\ printed = Exc(ClientError)
  /\ calls = <<Call("head_bucket", BucketB, <<>>)>>

(***************************************************************************)
(* C8.  The backend calls of a download.                                   *)
(***************************************************************************)
DownloadCalls == <<"head_bucket", "list_buckets", "list_objects", "download_file">>

\* C8, as claimed: a download issues at most three backend calls, in the order
\* existence check, object listing, get-object, and no other backend call.
C8_AtMostThreeCalls ==
  (pc = "printed" /\ Parts[1] = V_download) =>
    IsPrefix(Ops(calls), <<"head_bucket", "list_objects", "download_file">>)

\* C8, amended: a download issues at most four backend calls, in the order
\* existence check, bucket listing, object listing, get-object; the object
\* listing is left out when the bucket listing does not hold the bucket; no
\* other backend call is made.
C8_AtMostFourCalls ==
  (pc = "printed" /\ Parts[1] = V_download) =>
    \/ IsPrefix(Ops(calls), DownloadCalls)
    \/ Ops(calls) = <<"head_bucket", "list_buckets", "download_file">>

C8_Witness ==
  /\ pc = "printed"
  /\ Parts[1] = V_download
  /\ ~raised
  /\ Ops(calls) = DownloadCalls

(***************************************************************************)
(* C9.  The listing used after a successful existence probe.               *)
(***************************************************************************)
\* C9: in download, delete, deletedir and find, once the existence probe has
\* reported that bucket B exists, the value the inner listdir(B) returns is a
\* list of keys, never the 'Directory does not exist.' string.
C9_ListingIsAList ==
  [][ (Step /\ Parts'[1] \in {V_download, V_delete, V_deletedir, V_find}
         /\ Len(calls') >= 2 /\ calls'[1].op = "head_bucket"
         /\ ProbeTrue(World, calls'[1].bucket)) =>
        listdir(World, calls'[1].bucket, "none").response.kind = "list" ]_vars

(***************************************************************************)
(* C10.  Only a successful mutating command changes anything.              *)
(***************************************************************************)
\* C10: a command changes the buckets, the objects or the local files only if
\* it is a createdir, upload, download, delete or deletedir that returns its
\* success message; an error message, 'Command not recognized.', listdir and
\* find leave everything as it was.
C10_OnlySuccessChanges ==
  [][ Step => (WorldUnchanged \/ (~raised' /\ IsSuccess(Parts', printed'))) ]_vars

====
